---- MODULE Spec2Model ----
(***************************************************************************)
(* Model of the marimo-docs MCP server (class MarimoDocs).  Two builds of  *)
(* the server are in the source tree: the current one (all documentation   *)
(* sections, URL de-duplication, grouped "unknown element" message) and    *)
(* the earlier inputs-only one.  The variable build selects between them.  *)
(*                                                                         *)
(* Text conventions.  Element names, tool names and error codes are        *)
(* strings.  URLs and paths are sequences of tokens in which every "/" and *)
(* every ":" is a token of its own and every other token is a non-empty    *)
(* run of characters free of "/" and ":"; the regular expression of        *)
(* fetchDoc only looks at "/" and ":" and so acts on tokens exactly as it  *)
(* acts on characters.  Page text, queries and serialized records are      *)
(* sequences of one-character strings.                                     *)
(***************************************************************************)
EXTENDS Integers, Sequences, FiniteSets, TLC

VARIABLES build, cache, lastFetch, now, calls

vars == <<build, cache, lastFetch, now, calls>>

\* ------------------------------------------------------------------ bounds
\* Number of tool calls the transport can have handed to the handler and
\* not yet answered.
MaxCalls == 2
\* The clock runs from 0 to MaxTime steps of half the cache duration.
MaxTime == 2

\* ------------------------------------------------------- generic helpers
RECURSIVE Flatten(_)
Flatten(ss) == IF ss = <<>> THEN <<>> ELSE Head(ss) \o Flatten(Tail(ss))

RECURSIVE Join(_, _)
\* Array.prototype.join on sequences of sequences.
Join(ss, sep) ==
  IF ss = <<>> THEN <<>>
  ELSE IF Len(ss) = 1 THEN ss[1]
  ELSE ss[1] \o sep \o Join(Tail(ss), sep)

Range(s) == {s[k] : k \in 1..Len(s)}

\* --------------------------------------------------------- class fields
Builds == {"full", "inputs"}

baseUrlFull == <<"https", ":", "/", "/", "docs.marimo.io", "/", "api">>
baseUrlInputs == <<"https", ":", "/", "/", "docs.marimo.io", "/", "api", "/", "inputs">>
baseUrl(b) == IF b = "full" THEN baseUrlFull ELSE baseUrlInputs

cacheDuration == 1000 * 60 * 60

\* The endpoint tables, in insertion order.  The model keeps a selection of
\* the entries of each table: one per kind of path of the full table (an
\* inputs entry, a layouts entry, a one-segment entry), and three entries
\* of the inputs-only table, among them 'slider', mapped there to
\* '/range_slider/'.
endpointsFull ==
  << [name |-> "slider",   path |-> <<"/", "inputs", "/", "slider", "/">>],
     [name |-> "tree",     path |-> <<"/", "layouts", "/", "tree", "/">>],
     [name |-> "markdown", path |-> <<"/", "markdown", "/">>] >>

endpointsInputs ==
  << [name |-> "slider", path |-> <<"/", "range_slider", "/">>],
     [name |-> "button", path |-> <<"/", "button", "/">>],
     [name |-> "file",   path |-> <<"/", "file", "/">>] >>

endpoints(b) == IF b = "full" THEN endpointsFull ELSE endpointsInputs

\* Object.keys(this.endpoints): the own keys, in insertion order.
Keys(b) == [k \in 1..Len(endpoints(b)) |-> endpoints(b)[k].name]
KeySet(b) == Range(Keys(b))

\* Properties every object literal inherits from Object.prototype, with the
\* text a template literal makes of their values.
ObjectPrototype ==
  [k \in {"constructor", "toString", "__proto__"} |->
     CASE k = "constructor" -> "function Object() { [native code] }"
       [] k = "toString" -> "function toString() { [native code] }"
       [] OTHER -> "[object Object]"]

\* this.endpoints[element]: the own property when there is one, else the
\* inherited one, else undefined.  truthy is the outcome of the !endpoint
\* test; text is the endpoint as `${endpoint}` renders it.
Lookup(b, element) ==
  IF element \in KeySet(b)
  THEN LET e == CHOOSE x \in Range(endpoints(b)) : x.name = element
       IN  [truthy |-> e.path # <<>>, own |-> TRUE, text |-> e.path]
  ELSE IF element \in DOMAIN ObjectPrototype
  THEN [truthy |-> TRUE, own |-> FALSE, text |-> <<ObjectPrototype[element]>>]
  ELSE [truthy |-> FALSE, own |-> FALSE, text |-> <<"undefined">>]

\* ------------------------------------------------------ URL construction
RECURSIVE SkipSlashes(_)
SkipSlashes(s) ==
  IF s # <<>> /\ Head(s) = "/" THEN SkipSlashes(Tail(s)) ELSE s

RECURSIVE ReplaceDupSlashes(_)
\* s.replace(/([^:]\/)\/+/g, "$1"): scanning from the left, a character
\* other than ":" followed by two or more "/" keeps that character and one
\* "/"; the scan resumes after the run.
ReplaceDupSlashes(s) ==
  IF s = <<>> THEN <<>>
  ELSE IF Len(s) >= 3 /\ s[1] # ":" /\ s[2] = "/" /\ s[3] = "/"
  THEN <<s[1], "/">> \o ReplaceDupSlashes(SkipSlashes(SubSeq(s, 3, Len(s))))
  ELSE <<s[1]>> \o ReplaceDupSlashes(Tail(s))

\* A de-duplication that forgets the scheme separator: replace(/\/+/g, "/").
FetchUrlNoSchemeGuard(b, endpointText) ==
  LET RECURSIVE Squash(_)
      Squash(s) == IF s = <<>> THEN <<>>
                   ELSE IF Head(s) = "/"
                   THEN <<"/">> \o Squash(SkipSlashes(s))
                   ELSE <<Head(s)>> \o Squash(Tail(s))
  IN  Squash(baseUrl(b) \o endpointText)

\* The URL fetchDoc requests.
FetchUrl(b, endpointText) ==
  IF b = "full"
  THEN ReplaceDupSlashes(baseUrl(b) \o endpointText)
  ELSE baseUrl(b) \o endpointText

\* ------------------------------------------------------------- messages
\* A message is a sequence of tokens [kind, s]: kind = "lit" for a word of the
\* message template, "arg" for text echoed from the request, "section" for
\* a section label and "name" for an element name of the enumeration.
Lit(w) == [kind |-> "lit", s |-> w]
Words(ws) == [i \in 1..Len(ws) |-> Lit(ws[i])]

McpError(code, message) == [code |-> code, message |-> message]

RECURSIVE SplitSlash(_, _)
\* path.split('/') on a token sequence; cur is the piece being collected.
SplitSlash(s, cur) ==
  IF s = <<>> THEN <<cur>>
  ELSE IF Head(s) = "/" THEN <<cur>> \o SplitSlash(Tail(s), "")
  ELSE SplitSlash(Tail(s), cur \o Head(s))

\* path.split('/')[1] || 'other'
SectionOf(path) ==
  LET parts == SplitSlash(path, "")
  IN  IF Len(parts) >= 2 /\ parts[2] # "" THEN parts[2] ELSE "other"

RECURSIVE SectionsInOrder(_, _)
\* The keys of elementsBySection in the order the forEach creates them.
SectionsInOrder(entries, seen) ==
  IF entries = <<>> THEN <<>>
  ELSE LET sec == SectionOf(Head(entries).path)
       IN  IF sec \in seen THEN SectionsInOrder(Tail(entries), seen)
           ELSE <<sec>> \o SectionsInOrder(Tail(entries), seen \cup {sec})

\* elementsBySection[section]: the names pushed under one section.
ElementsOfSection(entries, sec) ==
  LET inSec == SelectSeq(entries, LAMBDA e : SectionOf(e.path) = sec)
  IN  [k \in 1..Len(inSec) |-> inSec[k].name]

NameTokens(names) == [k \in 1..Len(names) |-> [kind |-> "name", s |-> names[k]]]

\* The message of the error fetchDoc throws for a name it does not resolve.
UnknownElementMessage(b, element) ==
  IF b = "full"
  THEN LET secs == SectionsInOrder(endpoints(b), {})
           line(sec) == <<[kind |-> "section", s |-> sec]>>
                          \o NameTokens(ElementsOfSection(endpoints(b), sec))
       IN  Words(<<"Unknown", "element">>) \o <<[kind |-> "arg", s |-> element]>>
             \o Words(<<"Available", "elements", "by", "section">>)
             \o Flatten([k \in 1..Len(secs) |-> line(secs[k])])
  ELSE Words(<<"Unknown", "element">>) \o <<[kind |-> "arg", s |-> element]>>
         \o Words(<<"Available", "elements">>) \o NameTokens(Keys(b))

\* ------------------------------------------------------ character text
Whitespace == {" ", "\n", "\t"}

RECURSIVE TrimLeft(_)
TrimLeft(t) == IF t # <<>> /\ Head(t) \in Whitespace THEN TrimLeft(Tail(t)) ELSE t

RECURSIVE TrimRight(_)
TrimRight(t) ==
  IF t # <<>> /\ t[Len(t)] \in Whitespace THEN TrimRight(SubSeq(t, 1, Len(t) - 1)) ELSE t

\* String.prototype.trim
Trim(t) == TrimRight(TrimLeft(t))

\* String.prototype.includes
Includes(t, sub) ==
  \E k \in 0..(Len(t) - Len(sub)) : SubSeq(t, k + 1, k + Len(sub)) = sub

UpperToLower ==
  [c \in {"A","B","C","D","E","F","G","H","I","J","K","L","M","N","O","P","Q",
          "R","S","T","U","V","W","X","Y","Z"} |->
     CASE c = "A" -> "a" [] c = "B" -> "b" [] c = "C" -> "c" [] c = "D" -> "d"
       [] c = "E" -> "e" [] c = "F" -> "f" [] c = "G" -> "g" [] c = "H" -> "h"
       [] c = "I" -> "i" [] c = "J" -> "j" [] c = "K" -> "k" [] c = "L" -> "l"
       [] c = "M" -> "m" [] c = "N" -> "n" [] c = "O" -> "o" [] c = "P" -> "p"
       [] c = "Q" -> "q" [] c = "R" -> "r" [] c = "S" -> "s" [] c = "T" -> "t"
       [] c = "U" -> "u" [] c = "V" -> "v" [] c = "W" -> "w" [] c = "X" -> "x"
       [] c = "Y" -> "y" [] c = "Z" -> "z"]

\* String.prototype.toLowerCase
ToLowerCase(t) ==
  [k \in 1..Len(t) |-> IF t[k] \in DOMAIN UpperToLower THEN UpperToLower[t[k]] ELSE t[k]]

\* ------------------------------------------------------- JSON.stringify
RECURSIVE JsonEscape(_)
JsonEscape(t) ==
  IF t = <<>> THEN <<>>
  ELSE (CASE Head(t) = "\"" -> <<"\\", "\"">>
          [] Head(t) = "\\" -> <<"\\", "\\">>
          [] Head(t) = "\n" -> <<"\\", "n">>
          [] Head(t) = "\t" -> <<"\\", "t">>
          [] OTHER -> <<Head(t)>>) \o JsonEscape(Tail(t))

JsonString(t) == <<"\"">> \o JsonEscape(t) \o <<"\"">>

JsonArray(items) == <<"[">> \o Join(items, <<",">>) \o <<"]">>

JsonParameter(p) ==
  <<"{", "\"", "n", "a", "m", "e", "\"", ":">> \o JsonString(p.name)
    \o <<",", "\"", "d", "e", "s", "c", "r", "i", "p", "t", "i", "o", "n", "\"", ":">> \o JsonString(p.description)
    \o <<",", "\"", "r", "e", "q", "u", "i", "r", "e", "d", "\"", ":">> \o (IF p.required THEN <<"t", "r", "u", "e">> ELSE <<"f", "a", "l", "s", "e">>)
    \o <<"}">>

\* JSON.stringify(doc) for an ApiDoc.
JsonStringify(doc) ==
  <<"{", "\"", "t", "i", "t", "l", "e", "\"", ":">> \o JsonString(doc.title)
    \o <<",", "\"", "d", "e", "s", "c", "r", "i", "p", "t", "i", "o", "n", "\"", ":">> \o JsonString(doc.description)
    \o <<",", "\"", "p", "a", "r", "a", "m", "e", "t", "e", "r", "s", "\"", ":">>
    \o JsonArray([k \in 1..Len(doc.parameters) |-> JsonParameter(doc.parameters[k])])
    \o <<",", "\"", "e", "x", "a", "m", "p", "l", "e", "s", "\"", ":">>
    \o JsonArray([k \in 1..Len(doc.examples) |-> JsonString(doc.examples[k])])
    \o <<"}">>

\* --------------------------------------------------- document extraction
\* A parsed page is the sequence, in document order, of the nodes the
\* extractor selects on.  A node has a tag ("h1", "p", "code", "tr"), says
\* whether it lies inside an element of class md-content (content), inside
\* which element of class doc-children it lies (doc, 0 for none), whether a
\* code node lies inside a pre (pre), and carries its text; a "tr" node
\* carries the texts of its td cells.
Node(tag, content, doc, pre, text, cells) ==
  [tag |-> tag, content |-> content, doc |-> doc, pre |-> pre,
   text |-> text, cells |-> cells]

\* A selection on the whole document instead of the container: $(sel).
ContentFindAnywhere(page, tag) ==
  SelectSeq(page, LAMBDA n : n.tag = tag)

\* $('.md-content') followed by find(sel): the nodes inside the container.
ContentFind(page, tag) ==
  SelectSeq(page, LAMBDA n : n.content /\ n.tag = tag)

TextsOf(nodes) ==
  LET trimmed == [k \in 1..Len(nodes) |-> Trim(nodes[k].text)]
  IN  SelectSeq(trimmed, LAMBDA t : Len(t) > 0)

\* parseParameters: one parameter per table row of the section that has at
\* least two cells.
parseParameters(rows) ==
  LET ok == SelectSeq(rows, LAMBDA r : Len(r.cells) >= 2)
  IN  [k \in 1..Len(ok) |->
         [name |-> Trim(ok[k].cells[1]),
          description |-> Trim(ok[k].cells[2]),
          required |-> IF Len(ok[k].cells) >= 3
                       THEN Includes(ok[k].cells[3], <<"r", "e", "q", "u", "i", "r", "e", "d">>)
                       ELSE FALSE]]

\* The record fetchDoc builds from a parsed page.
ExtractDoc(page) ==
  LET h1s == ContentFind(page, "h1")
      title == IF h1s = <<>> THEN <<>> ELSE Trim(h1s[1].text)
      description == Join(TextsOf(ContentFind(page, "p")), <<"\n", "\n">>)
      docIds == {page[k].doc : k \in {j \in 1..Len(page) : page[j].content /\ page[j].doc > 0}}
      parameters ==
        IF docIds = {} THEN <<>>
        ELSE LET first == CHOOSE d \in docIds : \A e \in docIds : d <= e
             IN  parseParameters(
                   SelectSeq(page, LAMBDA n : n.content /\ n.tag = "tr" /\ n.doc = first))
      examples ==
        TextsOf(SelectSeq(page, LAMBDA n : n.content /\ n.tag = "code" /\ n.pre))
  IN  [title |-> title, description |-> description,
       parameters |-> parameters, examples |-> examples]

\* -------------------------------------------------- the documentation site
\* Three pages of the site.  PageSimple is a page of one heading and one
\* paragraph.  PageNoContainer has a heading and a paragraph but no
\* md-content container.  PageRich has padded text, an empty paragraph, two
\* doc-children blocks, rows of one, two and three cells, inline code and
\* code blocks.
PageSimple ==
  << Node("h1", TRUE, 0, FALSE, <<"S", "l", "i", "d", "e", "r">>, <<>>),
     Node("p", TRUE, 0, FALSE, <<"A", " ", "s", "l", "i", "d", "e", "r", ".">>, <<>>) >>

PageNoContainer ==
  << Node("h1", FALSE, 0, FALSE, <<"S", "l", "i", "d", "e", "r", " ", "m", "o", "v", "e", "d">>, <<>>),
     Node("p", FALSE, 0, FALSE, <<"S", "e", "e", " ", "t", "h", "e", " ", "n", "e", "w", " ", "p", "a", "g", "e", ".">>, <<>>),
     Node("code", FALSE, 0, TRUE, <<"m", "o", ".", "u", "i", ".", "s", "l", "i", "d", "e", "r", "(", ")">>, <<>>) >>

PageRich ==
  << Node("p", FALSE, 0, FALSE, <<"S", "k", "i", "p", " ", "t", "o", " ", "c", "o", "n", "t", "e", "n", "t">>, <<>>),
     Node("h1", TRUE, 0, FALSE, <<" ", "M", "a", "r", "k", "d", "o", "w", "n", " ", "\n">>, <<>>),
     Node("h1", TRUE, 0, FALSE, <<"S", "e", "c", "o", "n", "d">>, <<>>),
     Node("p", TRUE, 0, FALSE, <<" ", " ">>, <<>>),
     Node("p", TRUE, 0, FALSE, <<"L", "i", "k", "e", " ", "a", " ", "S", "L", "I", "D", "E", "R", ".">>, <<>>),
     Node("code", TRUE, 0, FALSE, <<"i", "n", "l", "i", "n", "e">>, <<>>),
     Node("tr", TRUE, 1, FALSE, <<>>, << <<" ", "v", "a", "l", "u", "e", " ">>, <<"T", "h", "e", " ", "\"", "s", "t", "a", "r", "t", "\"">> >>),
     Node("tr", TRUE, 1, FALSE, <<>>, << <<"l", "a", "b", "e", "l">>, <<"d">>, <<"r", "e", "q", "u", "i", "r", "e", "d">> >>),
     Node("tr", TRUE, 1, FALSE, <<>>, << <<"l", "o", "n", "e", "l", "y">> >>),
     Node("tr", TRUE, 1, FALSE, <<>>, << <<"x">>, <<"e">>, <<"R", "e", "q", "u", "i", "r", "e", "d">> >>),
     Node("p", TRUE, 1, FALSE, <<"N", "o", "t", "e", "s">>, <<>>),
     Node("tr", TRUE, 2, FALSE, <<>>, << <<"o", "t", "h", "e", "r">>, <<"b", "l", "o", "c", "k">> >>),
     Node("code", TRUE, 0, TRUE, <<" ", "m", "o", ".", "m", "d", "(", "\"", "h", "i", "\"", ")", "\n">>, <<>>),
     Node("code", TRUE, 0, TRUE, <<" ">>, <<>>) >>

\* What a request can come back with: a transport or HTTP error, a
\* response with an empty body, a response whose body the HTTP client
\* decoded to a number (a JSON body), or a response with a page.
Failure == [kind |-> "error", page |-> <<>>]
EmptyBody == [kind |-> "empty", page |-> <<>>]
JsonBody == [kind |-> "json", page |-> <<>>]
Html(page) == [kind |-> "html", page |-> page]

\* The page the site holds at a URL, if any.
SitePages(url) ==
  LET at(path) == baseUrlFull \o path
  IN  CASE url = at(<<"/", "inputs", "/", "slider", "/">>) -> {PageSimple}
        [] url = at(<<"/", "layouts", "/", "tree", "/">>) -> {PageNoContainer}
        [] url = at(<<"/", "markdown", "/">>) -> {PageRich}
        [] url = at(<<"/", "inputs", "/", "range_slider", "/">>) -> {PageSimple}
        [] url = at(<<"/", "inputs", "/", "button", "/">>) -> {PageNoContainer}
        [] url = at(<<"/", "inputs", "/", "file", "/">>) -> {PageRich}
        [] OTHER -> {}

Responses(url) == {Failure, EmptyBody, JsonBody} \cup {Html(p) : p \in SitePages(url)}

\* ---------------------------------------------------------------- fetchDoc
Arg(s) == [kind |-> "arg", s |-> s]

\* A fetchDoc that sends the request before it looks at the endpoint.
fetchDocEnterGetFirst(b, element) ==
  LET endpoint == Lookup(b, element)
  IN  IF ~endpoint.truthy
      THEN [throws |-> TRUE,
            error |-> McpError("InvalidParams", UnknownElementMessage(b, element)),
            gets |-> <<FetchUrl(b, endpoint.text)>>]
      ELSE [throws |-> FALSE,
            error |-> McpError("", <<>>),
            gets |-> <<FetchUrl(b, endpoint.text)>>]

\* fetchDoc up to its first await: the lookup, the throw for a name that
\* does not resolve, else the GET it issues.
fetchDocEnter(b, element) ==
  LET endpoint == Lookup(b, element)
  IN  IF ~endpoint.truthy
      THEN [throws |-> TRUE,
            error |-> McpError("InvalidParams", UnknownElementMessage(b, element)),
            gets |-> <<>>]
      ELSE [throws |-> FALSE,
            error |-> McpError("", <<>>),
            gets |-> <<FetchUrl(b, endpoint.text)>>]

\* The body of the try block from the point the GET settles: what it
\* throws, or the record it returns.
TryBody(response) ==
  CASE response.kind = "error" ->
         [threw |-> TRUE, doc |-> <<>>,
          thrown |-> McpError("AxiosError", Words(<<"Request", "failed">>))]
    [] response.kind = "empty" ->
         [threw |-> TRUE, doc |-> <<>>,
          thrown |-> McpError("InternalError",
                              Words(<<"Empty", "response", "from", "Marimo", "docs">>))]
    [] response.kind = "json" ->
         [threw |-> TRUE, doc |-> <<>>,
          thrown |-> McpError("TypeError", Words(<<"Cannot", "create", "property">>))]
    [] OTHER ->
         [threw |-> FALSE, doc |-> <<ExtractDoc(response.page)>>,
          thrown |-> McpError("", <<>>)]

\* A catch block that lets errors that are already McpErrors through.
CatchFetchRethrowMcp(element, thrown) ==
  IF thrown.code = "InternalError" THEN thrown
  ELSE McpError("InternalError",
                Words(<<"Failed", "to", "fetch", "documentation", "for">>) \o <<Arg(element)>>)

\* The catch block of fetchDoc: the error it throws for the one it caught.
CatchFetch(element, thrown) ==
  McpError("InternalError",
           Words(<<"Failed", "to", "fetch", "documentation", "for">>) \o <<Arg(element)>>)

\* fetchDoc from the point the GET settles.
fetchDocResume(element, response) ==
  LET t == TryBody(response)
  IN  IF t.threw
      THEN [ok |-> FALSE, doc |-> <<>>, error |-> CatchFetch(element, t.thrown)]
      ELSE [ok |-> TRUE, doc |-> t.doc, error |-> McpError("", <<>>)]

\* ----------------------------------------------------------- call records
NoResp == [status |-> "none", code |-> "", message |-> <<>>, shape |-> "", content |-> <<>>]
Thrown(err) ==
  [status |-> "error", code |-> err.code, message |-> err.message,
   shape |-> "", content |-> <<>>]
\* { content: [{ type: 'text', text: JSON.stringify(value, null, 2) }] }:
\* shape tells a single record from an array of records.
Returned(shape, docs) ==
  [status |-> "ok", code |-> "", message |-> <<>>, shape |-> shape, content |-> docs]

NoArgs == [present |-> FALSE, element |-> <<>>, query |-> <<>>]
EmptyArgs == [present |-> TRUE, element |-> <<>>, query |-> <<>>]
ElementArgs(e) == [present |-> TRUE, element |-> <<e>>, query |-> <<>>]
QueryArgs(q) == [present |-> TRUE, element |-> <<>>, query |-> <<q>>]

Idle ==
  [pc |-> "idle", name |-> "", args |-> NoArgs, i |-> 0, results |-> <<>>,
   failed |-> <<>>, gets |-> <<>>, pending |-> <<>>, resp |-> NoResp, at |-> 0]

\* The handler has returned or thrown at time t.
Done(rec, resp, t) == [rec EXCEPT !.pc = "done", !.pending = <<>>, !.resp = resp, !.at = t]

\* !args?.element and !args?.query: the field is absent or an empty string.
MissingElement(args) == args.element = <<>> \/ args.element[1] = ""
MissingQuery(args) == args.query = <<>> \/ args.query[1] = <<>>

\* ------------------------------------------------------------- searchDocs
\* A test that lower-cases neither side.
SearchMatchesCaseSensitive(doc, query) == Includes(JsonStringify(doc), query)

\* The test of the loop body on a fetched record.
SearchMatches(doc, query) ==
  Includes(ToLowerCase(JsonStringify(doc)), ToLowerCase(query))

\* A loop that starts every fetch before it awaits the first.
IterationGetsFanOut(b, i) ==
  Flatten([k \in 1..(Len(Keys(b)) - i + 1) |-> fetchDocEnter(b, Keys(b)[i + k - 1]).gets])

\* The requests outstanding once iteration i of the loop has reached its
\* await.
IterationGets(b, i) == fetchDocEnter(b, Keys(b)[i]).gets

RECURSIVE SearchFromShortCircuit(_, _, _, _)
\* A loop that returns as soon as it has one match.
SearchFromShortCircuit(b, rec, i, t) ==
  IF i > Len(Keys(b)) \/ rec.results # <<>>
  THEN Done([rec EXCEPT !.i = i], Returned("array", rec.results), t)
  ELSE LET enter == fetchDocEnter(b, Keys(b)[i])
       IN  IF enter.throws
           THEN SearchFromShortCircuit(b, [rec EXCEPT !.failed = @ \o <<Keys(b)[i]>>], i + 1, t)
           ELSE [rec EXCEPT !.pc = "search", !.i = i,
                            !.gets = @ \o enter.gets,
                            !.pending = IterationGets(b, i)]

RECURSIVE SearchFrom(_, _, _, _)
\* searchDocs from the top of iteration i to its next await or its return.
SearchFrom(b, rec, i, t) ==
  IF i > Len(Keys(b))
  THEN Done([rec EXCEPT !.i = i], Returned("array", rec.results), t)
  ELSE LET enter == fetchDocEnter(b, Keys(b)[i])
       IN  IF enter.throws
           THEN SearchFrom(b, [rec EXCEPT !.failed = @ \o <<Keys(b)[i]>>], i + 1, t)
           ELSE [rec EXCEPT !.pc = "search", !.i = i,
                            !.gets = @ \o enter.gets,
                            !.pending = IterationGets(b, i)]

\* ------------------------------------------------ the CallTool handler
ToolNames == {"get_element_api", "search_api", "unknown_tool"}

\* throw new McpError(ErrorCode.InvalidParams, 'Missing arguments')
MissingArgumentsError == McpError("InvalidParams", Words(<<"Missing", "arguments">>))

\* A handler with one message for every missing input.
MissingFieldErrorGeneric(field) == MissingArgumentsError

\* throw new McpError(ErrorCode.InvalidParams, 'Missing <field> parameter')
MissingFieldError(field) ==
  McpError("InvalidParams", Words(<<"Missing", field, "parameter">>))

\* A default branch that reports the unknown tool as a bad parameter.
UnknownToolErrorAsInvalidParams(name) ==
  McpError("InvalidParams", Words(<<"Unknown", "tool">>) \o <<Arg(name)>>)

\* The default branch of the switch.
UnknownToolError(name) ==
  McpError("MethodNotFound", Words(<<"Unknown", "tool">>) \o <<Arg(name)>>)

\* The handler from its entry to its first await, its return or its throw.
HandlerEnter(b, name, args, t) ==
  LET rec == [Idle EXCEPT !.name = name, !.args = args]
  IN  IF ~args.present
      THEN Done(rec, Thrown(MissingArgumentsError), t)
      ELSE CASE name = "get_element_api" ->
                  IF MissingElement(args)
                  THEN Done(rec, Thrown(MissingFieldError("element")), t)
                  ELSE LET enter == fetchDocEnter(b, args.element[1])
                       IN  IF enter.throws
                           THEN Done([rec EXCEPT !.gets = enter.gets], Thrown(enter.error), t)
                           ELSE [rec EXCEPT !.pc = "fetch", !.gets = enter.gets,
                                            !.pending = enter.gets]
             [] name = "search_api" ->
                  IF MissingQuery(args)
                  THEN Done(rec, Thrown(MissingFieldError("query")), t)
                  ELSE SearchFrom(b, rec, 1, t)
             [] OTHER ->
                  Done(rec, Thrown(UnknownToolError(name)), t)

\* ------------------------------------------------------------ the inputs
\* The requests of the model: every tool name with no arguments object,
\* with an empty one, with an element only and with a query only;
\* get_element_api with each known name, with unknown names, with a name
\* that differs from a known one in case only, with a property name of
\* Object.prototype and with the empty string; search_api with an upper-case
\* query, a query that matches a key of the serialized record, and the
\* empty string.
ElementInputs(b) == KeySet(b) \cup {"nosuch", "Slider", "constructor", ""}
QueryInputs == {<<"S", "L", "I", "D", "E", "R">>, <<"T", "i", "t", "l", "e">>, <<>>}
Requests(b) ==
  (ToolNames \X {NoArgs, EmptyArgs, ElementArgs("slider"), QueryArgs(<<"S", "L", "I", "D", "E", "R">>)})
    \cup ({"get_element_api"} \X {ElementArgs(e) : e \in ElementInputs(b)})
    \cup ({"search_api"} \X {QueryArgs(q) : q \in QueryInputs})

Slots == 1..MaxCalls

\* Everything a GET can come back with, whatever its URL.
AllResponses ==
  {Failure, EmptyBody, JsonBody} \cup {Html(p) : p \in {PageSimple, PageNoContainer, PageRich}}

\* ----------------------------------------------------------------- actions
Init ==
  /\ build \in Builds
  /\ cache = <<>>
  /\ lastFetch = "null"
  /\ now = 0
  /\ calls = [c \in Slots |-> Idle]

\* The transport hands a tools/call request to the handler, which runs to
\* its first await, its return or its throw.
CallTool(c, name, args) ==
  /\ calls[c].pc = "idle"
  /\ calls' = [calls EXCEPT ![c] = HandlerEnter(build, name, args, now)]
  /\ UNCHANGED <<build, cache, lastFetch, now>>

\* The GET of a get_element_api call settles and the handler runs to its
\* end.
FetchSettles(c, response) ==
  /\ calls[c].pc = "fetch"
  /\ response \in Responses(Head(calls[c].pending))
  /\ LET r == fetchDocResume(calls[c].args.element[1], response)
     IN  calls' = [calls EXCEPT ![c] =
           IF r.ok THEN Done(@, Returned("object", r.doc), now)
           ELSE Done(@, Thrown(r.error), now)]
  /\ UNCHANGED <<build, cache, lastFetch, now>>

\* The GET of the current iteration of a search settles and the loop runs
\* to its next await or its return.
SearchSettles(c, response) ==
  /\ calls[c].pc = "search"
  /\ response \in Responses(Head(calls[c].pending))
  /\ LET rec == calls[c]
         element == Keys(build)[rec.i]
         r == fetchDocResume(element, response)
         after ==
           IF r.ok
           THEN IF SearchMatches(r.doc[1], rec.args.query[1])
                THEN [rec EXCEPT !.results = @ \o r.doc, !.pending = Tail(@)]
                ELSE [rec EXCEPT !.pending = Tail(@)]
           ELSE [rec EXCEPT !.failed = @ \o <<element>>, !.pending = Tail(@)]
     IN  calls' = [calls EXCEPT ![c] = SearchFrom(build, after, rec.i + 1, now)]
  /\ UNCHANGED <<build, cache, lastFetch, now>>

\* The transport sends the result or the error of a finished call.
Reply(c) ==
  /\ calls[c].pc = "done"
  /\ calls' = [calls EXCEPT ![c] = Idle]
  /\ UNCHANGED <<build, cache, lastFetch, now>>

\* Half a cache duration passes.
Tick ==
  /\ now < MaxTime
  /\ now' = now + 1
  /\ UNCHANGED <<build, cache, lastFetch, calls>>

Next ==
  \/ \E c \in Slots, req \in Requests(build) : CallTool(c, req[1], req[2])
  \/ \E c \in Slots, response \in AllResponses : FetchSettles(c, response)
  \/ \E c \in Slots, response \in AllResponses : SearchSettles(c, response)
  \/ \E c \in Slots : Reply(c)

Spec == Init /\ [][Next]_vars

NextClock == Next \/ Tick

SpecClock == Init /\ [][NextClock]_vars

\* =================================================================== claims
InFlight(rec) == rec.pc \in {"fetch", "search"}
IsGet(rec) == rec.name = "get_element_api" /\ rec.args.present /\ ~MissingElement(rec.args)
IsSearch(rec) == rec.name = "search_api" /\ rec.args.present /\ ~MissingQuery(rec.args)
Requested(rec) == rec.args.element[1]
NameToken(n) == [kind |-> "name", s |-> n]

\* C1: a fetch of a name that is not a key of the endpoint table fails with
\* InvalidParams (UnknownElement), and the enumeration of its message lists
\* every known name exactly once.  Stated for get_element_api calls, whose
\* result is the result of fetchDoc: the call never reaches a GET, and ends
\* in that error.
C1_UnknownNameFailsListingEveryName ==
  \A c \in Slots :
    LET rec == calls[c]
        listed(n) == {k \in 1..Len(rec.resp.message) : rec.resp.message[k] = NameToken(n)}
    IN  (IsGet(rec) /\ Requested(rec) \notin KeySet(build)) =>
          /\ rec.pc = "done"
          /\ rec.resp.status = "error"
          /\ rec.resp.code = "InvalidParams"
          /\ \A n \in KeySet(build) : Cardinality(listed(n)) = 1

\* The URL the claim describes: base and path concatenated, and every "/"
\* that follows a "/" dropped unless the two are the "//" of "://".
CollapsedUrl(b, path) ==
  LET s == baseUrl(b) \o path
      kept == SelectSeq([k \in 1..Len(s) |-> k],
                LAMBDA k : ~(s[k] = "/" /\ k > 1 /\ s[k - 1] = "/"
                              /\ ~(k > 2 /\ s[k - 2] = ":")))
  IN  [k \in 1..Len(kept) |-> s[kept[k]]]

PathOf(b, n) == (CHOOSE e \in Range(endpoints(b)) : e.name = n).path

\* For each build, the URL the claim describes for each known name.
ExpectedUrl == [b \in Builds |-> [n \in KeySet(b) |-> CollapsedUrl(b, PathOf(b, n))]]

\* C2: a fetch of a name of the endpoint table issues exactly one GET, to
\* the base URL followed by the path with repeated "/" collapsed, and issues
\* no second GET when the first one fails.  Every GET of a search is the
\* one GET of the fetch of its name.
C2_OneGetToCollapsedUrl ==
  \A c \in Slots :
    LET rec == calls[c]
    IN  /\ (IsGet(rec) /\ Requested(rec) \in KeySet(build)) =>
              rec.gets = <<ExpectedUrl[build][Requested(rec)]>>
        /\ (IsSearch(rec) /\ rec.pc # "idle") =>
              /\ Len(rec.gets) = (IF rec.pc = "done" THEN rec.i - 1 ELSE rec.i)
              /\ \A k \in 1..Len(rec.gets) :
                   rec.gets[k] = ExpectedUrl[build][Keys(build)[k]]

C2_Witness ==
  \E c \in Slots :
    /\ IsGet(calls[c]) /\ Requested(calls[c]) \in KeySet(build)
    /\ calls[c].pc = "done" /\ calls[c].resp.status = "error"
    /\ Len(calls[c].gets) = 1

\* The record the site's page for a name extracts to.
SiteDoc(b, n) ==
  ExtractDoc(CHOOSE p \in SitePages(ExpectedUrl[b][n]) : TRUE)

SameLetter(x, y) ==
  \/ x = y
  \/ x \in DOMAIN UpperToLower /\ UpperToLower[x] = y
  \/ y \in DOMAIN UpperToLower /\ UpperToLower[y] = x

ContainsIgnoringCase(t, q) ==
  \E k \in 0..(Len(t) - Len(q)) : \A j \in 1..Len(q) : SameLetter(t[k + j], q[j])

\* For each build: the record of each name's page, and whether its
\* serialized form contains each query up to case.
ExpectedDocs == [b \in Builds |-> [n \in KeySet(b) |-> SiteDoc(b, n)]]
ExpectedHit ==
  [b \in Builds |-> [n \in KeySet(b) |-> [q \in QueryInputs |->
     ContainsIgnoringCase(JsonStringify(ExpectedDocs[b][n]), q)]]]

\* C3: a search never fails as a whole; it returns, in table order, exactly
\* the records of the names whose fetch did not fail and whose serialized
\* record contains the query up to case, and nothing for the other names.
C3_SearchReturnsMatchesOfSuccessfulFetches ==
  \A c \in Slots :
    LET rec == calls[c]
        hit == SelectSeq(Keys(build),
                 LAMBDA n : /\ n \notin Range(rec.failed)
                            /\ ExpectedHit[build][n][rec.args.query[1]])
    IN  (IsSearch(rec) /\ rec.pc = "done") =>
          /\ rec.resp.status = "ok"
          /\ rec.resp.shape = "array"
          /\ rec.resp.content = [k \in 1..Len(hit) |-> ExpectedDocs[build][hit[k]]]

C3_Witness ==
  \E c \in Slots :
    /\ IsSearch(calls[c]) /\ calls[c].pc = "done"
    /\ Len(calls[c].failed) = 1
    /\ Len(calls[c].resp.content) = 1
    /\ calls[c].resp.content[1] = ExtractDoc(PageRich)

KnownTool(rec) == rec.name \in {"get_element_api", "search_api"}

\* C4 as stated: a call whose name is neither get_element_api nor search_api
\* is answered with MethodNotFound, whatever its arguments are.
C4_UnknownToolAlwaysMethodNotFound ==
  \A c \in Slots :
    (calls[c].pc = "done" /\ ~KnownTool(calls[c])) =>
      (calls[c].resp.status = "error" /\ calls[c].resp.code = "MethodNotFound")

\* C4 amended: a call whose name is neither get_element_api nor search_api
\* is answered with MethodNotFound when it carries an arguments object, and
\* with InvalidParams ("Missing arguments") when it carries none.
C4_UnknownToolWithArguments ==
  \A c \in Slots :
    (calls[c].pc = "done" /\ ~KnownTool(calls[c])) =>
      /\ calls[c].resp.status = "error"
      /\ calls[c].args.present =>
           /\ calls[c].resp.code = "MethodNotFound"
           /\ Arg(calls[c].name) \in Range(calls[c].resp.message)
      /\ ~calls[c].args.present =>
           /\ calls[c].resp.code = "InvalidParams"
           /\ calls[c].resp.message = Words(<<"Missing", "arguments">>)

C4_Witness ==
  \E c \in Slots :
    /\ calls[c].pc = "done" /\ calls[c].name = "unknown_tool"
    /\ calls[c].args = ElementArgs("slider")
    /\ calls[c].resp.code = "MethodNotFound"

RequiredField(rec) == IF rec.name = "get_element_api" THEN "element" ELSE "query"
LacksField(rec) ==
  IF rec.name = "get_element_api" THEN MissingElement(rec.args) ELSE MissingQuery(rec.args)

\* C5: get_element_api or search_api called without an arguments object is
\* answered with InvalidParams; called with an arguments object that lacks
\* the required field (element, respectively query) it is answered with
\* InvalidParams and a message that names the field.
C5_MissingInputIsInvalidParams ==
  \A c \in Slots :
    LET rec == calls[c]
    IN  (KnownTool(rec) /\ (~rec.args.present \/ LacksField(rec))) =>
          /\ rec.pc = "done"
          /\ rec.resp.status = "error"
          /\ rec.resp.code = "InvalidParams"
          /\ rec.args.present => Lit(RequiredField(rec)) \in Range(rec.resp.message)

C5_Witness ==
  \E c \in Slots :
    /\ calls[c].pc = "done" /\ calls[c].name = "search_api"
    /\ calls[c].args = ElementArgs("slider")
    /\ calls[c].resp.code = "InvalidParams"
    /\ Lit("query") \in Range(calls[c].resp.message)

FailureWrapper(element) ==
  [status |-> "error", code |-> "InternalError",
   message |-> Words(<<"Failed", "to", "fetch", "documentation", "for">>) \o <<Arg(element)>>,
   shape |-> "", content |-> <<>>]

\* C6: when the GET of a fetch errors, comes back with an empty body, or
\* comes back with a body the parser throws on, the fetch ends in an
\* InternalError whose message names the element; the error thrown inside
\* (the client's error, the "Empty response" error, the parser's error) is
\* not what the caller gets.
C6_FetchFailuresBecomeInternalError ==
  [][\A c \in Slots : \A r \in {Failure, EmptyBody, JsonBody} :
       FetchSettles(c, r) =>
         /\ calls'[c].pc = "done"
         /\ calls'[c].resp = FailureWrapper(Requested(calls[c]))]_vars

C6_Witness ==
  \E c \in Slots :
    /\ IsGet(calls[c]) /\ calls[c].pc = "done"
    /\ Len(calls[c].gets) = 1
    /\ calls[c].resp = FailureWrapper(Requested(calls[c]))

\* C7: a call that ends in a validation failure (InvalidParams for a missing
\* arguments object, a missing field or an unknown element; MethodNotFound
\* for an unknown tool) has issued no GET.
C7_ValidationFailureIssuesNoGet ==
  \A c \in Slots :
    (calls[c].pc = "done" /\ calls[c].resp.status = "error"
       /\ calls[c].resp.code \in {"InvalidParams", "MethodNotFound"}) =>
      calls[c].gets = <<>>

C7_Witness ==
  \E c \in Slots :
    /\ IsGet(calls[c]) /\ Requested(calls[c]) = "nosuch"
    /\ calls[c].pc = "done" /\ calls[c].resp.code = "InvalidParams"
    /\ calls[c].gets = <<>>

\* Milliseconds since clock reading t.
ElapsedSince(t) == (now - t) * (cacheDuration \div 2)

\* C8: once an element has been fetched successfully, a request for the
\* same element within the cache duration is served from the cache: no step
\* issues a GET for it.
C8_RepeatedRequestServedFromCache ==
  [][\A c \in Slots :
       (calls[c].pc = "idle" /\ calls'[c].pc = "fetch") =>
         ~\E d \in Slots :
            /\ calls[d].pc = "done" /\ IsGet(calls[d])
            /\ calls[d].resp.status = "ok"
            /\ Requested(calls[d]) = Requested(calls'[c])
            /\ ElapsedSince(calls[d].at) < cacheDuration]_vars

\* C9 as stated: the handling of one call runs to completion before the
\* handling of the next starts, so no two calls are in progress at once.
C9_OneCallAtATime ==
  Cardinality({c \in Slots : InFlight(calls[c])}) <= 1

\* C9 amended: inside one call the steps are sequential: a call has at most
\* one GET outstanding, and a search has issued the GETs of the first i
\* names only, the last of them being the outstanding one.  Calls are not
\* serialized against each other.
C9_SequentialWithinACall ==
  \A c \in Slots :
    /\ Len(calls[c].pending) <= 1
    /\ InFlight(calls[c]) => calls[c].pending = <<calls[c].gets[Len(calls[c].gets)]>>
    /\ calls[c].pc = "search" => Len(calls[c].gets) = calls[c].i

C9_Witness ==
  \E c, d \in Slots :
    /\ c # d
    /\ calls[c].pc = "search" /\ calls[c].i = 2 /\ Len(calls[c].pending) = 1
    /\ InFlight(calls[d])

EmptyRecord ==
  [title |-> <<>>, description |-> <<>>, parameters |-> <<>>, examples |-> <<>>]

HasContainer(page) == \E k \in 1..Len(page) : page[k].content

\* C10: when the GET of a fetch comes back with a page that has no
\* md-content container, the fetch succeeds, with the record of empty title,
\* empty description, no parameters and no examples.
C10_NoContainerYieldsEmptyRecord ==
  [][\A c \in Slots : \A p \in {PageSimple, PageNoContainer, PageRich} :
       (~HasContainer(p) /\ FetchSettles(c, Html(p))) =>
         /\ calls'[c].pc = "done"
         /\ calls'[c].resp = Returned("object", <<EmptyRecord>>)]_vars

C10_Witness ==
  \E c \in Slots :
    /\ IsGet(calls[c]) /\ calls[c].pc = "done"
    /\ Len(calls[c].gets) = 1
    /\ \E p \in SitePages(calls[c].gets[1]) : ~HasContainer(p)
    /\ calls[c].resp = Returned("object", <<EmptyRecord>>)

\* The GETs of a whole pass over the table: one per known name, in table
\* order.
TableUrls == [b \in Builds |-> [k \in 1..Len(endpoints(b)) |-> ExpectedUrl[b][endpoints(b)[k].name]]]

\* C11: one search fetches every name of the endpoint table exactly once,
\* in table order and one at a time.  While a search waits, the GETs it has
\* issued are those of a prefix of the table, the last of them is the only
\* one outstanding, and every name before it has been settled (its fetch
\* failed, or succeeded with or without a match); when the search returns
\* it has issued the GETs of the whole table, one per name, whatever the
\* query, the matches and the failures were.
C11_SearchFetchesEachNameOnceInOrder ==
  \A c \in Slots :
    LET rec == calls[c]
        n == Len(rec.gets)
        all == TableUrls[build]
    IN  IsSearch(rec) =>
          /\ n <= Len(all)
          /\ rec.gets = SubSeq(all, 1, n)
          /\ Len(rec.failed) + Len(rec.results) <= n - Len(rec.pending)
          /\ rec.pc = "search" => (n >= 1 /\ rec.pending = <<all[n]>>)
          /\ rec.pc = "done" => (n = Len(all) /\ rec.pending = <<>>)

C11_Witness ==
  \E c \in Slots :
    /\ IsSearch(calls[c]) /\ calls[c].pc = "done"
    /\ calls[c].failed # <<>> /\ calls[c].results # <<>>
    /\ Len(calls[c].results) + Len(calls[c].failed) < Len(calls[c].gets)
    /\ calls[c].gets = TableUrls[build]
====
